---- MODULE Spec2Model ----
(***************************************************************************)
(* Model of src/utils.rs of sandworm_api: the query validator              *)
(* (is_query_only), the Sui route classifier (is_sui_rpc_query), the chain *)
(* table rewriter (flatten_known_chain_tables), the response envelope      *)
(* (json_response, json_error) and the column decoder                      *)
(* (decode_column_to_json).                                                *)
(*                                                                         *)
(* A string is a sequence of characters; a character is a one-character    *)
(* TLA+ string, except for the two non-ASCII characters named below.       *)
(***************************************************************************)
EXTENDS Integers, Sequences, FiniteSets, TLC

VARIABLES pc, sql, ret, prev, row, idx, type_name, status, data, err

vars == <<pc, sql, ret, prev, row, idx, type_name, status, data, err>>

(***************************************************************************)
(* Characters.                                                             *)
(***************************************************************************)
LowerLetters ==
    <<"a", "b", "c", "d", "e", "f", "g", "h", "i", "j", "k", "l", "m",
      "n", "o", "p", "q", "r", "s", "t", "u", "v", "w", "x", "y", "z">>

UpperLetters ==
    <<"A", "B", "C", "D", "E", "F", "G", "H", "I", "J", "K", "L", "M",
      "N", "O", "P", "Q", "R", "S", "T", "U", "V", "W", "X", "Y", "Z">>

Digits == {"0", "1", "2", "3", "4", "5", "6", "7", "8", "9"}

\* U+00E9, LATIN SMALL LETTER E WITH ACUTE: a letter outside ASCII.
EAcute == "U+00E9"

\* U+00C9, its uppercase form.
EAcuteUpper == "U+00C9"

\* U+00DF, LATIN SMALL LETTER SHARP S: its uppercase form is the two letters SS.
SharpS == "U+00DF"

Range(f) == {f[k] : k \in DOMAIN f}

(***************************************************************************)
(* str::to_uppercase (utils.rs:65, utils.rs:70): every character is        *)
(* replaced by its uppercase mapping, which may be longer than one         *)
(* character.                                                              *)
(***************************************************************************)
UpperOf ==
    [c \in Range(LowerLetters) |->
        UpperLetters[CHOOSE k \in DOMAIN LowerLetters : LowerLetters[k] = c]]

char_to_uppercase(c) ==
    IF c \in DOMAIN UpperOf THEN <<UpperOf[c]>>
    ELSE IF c = SharpS THEN <<"S", "S">>
    ELSE IF c = EAcute THEN <<EAcuteUpper>>
    ELSE <<c>>

RECURSIVE to_uppercase(_)
to_uppercase(s) ==
    IF s = <<>> THEN <<>>
    ELSE char_to_uppercase(Head(s)) \o to_uppercase(Tail(s))

\* str::contains(&str) (utils.rs:66, utils.rs:73): pat occurs in s as a substring.
contains(s, pat) ==
    \E p \in 1..(Len(s) - Len(pat) + 1) : SubSeq(s, p, p + Len(pat) - 1) = pat

(***************************************************************************)
(* is_query_only (utils.rs:13-67).                                         *)
(***************************************************************************)
\* The denylist (utils.rs:14-64), entries in source order.
BLACKLIST ==
    << <<"I", "N", "S", "E", "R", "T">>,
       <<"U", "P", "D", "A", "T", "E">>,
       <<"D", "E", "L", "E", "T", "E">>,
       <<"C", "R", "E", "A", "T", "E">>,
       <<"D", "R", "O", "P">>,
       <<"A", "L", "T", "E", "R">>,
       <<"T", "R", "U", "N", "C", "A", "T", "E">>,
       <<"R", "E", "P", "L", "A", "C", "E">>,
       <<"G", "R", "A", "N", "T">>,
       <<"R", "E", "V", "O", "K", "E">>,
       <<"S", "H", "O", "W">>,
       <<"U", "S", "E", "R">>,
       <<"S", "E", "T">>,
       <<"E", "X", "E", "C", "U", "T", "E">>,
       <<"C", "A", "L", "L">>,
       <<"C", "O", "P", "Y">>,
       <<"c", "u", "r", "r", "e", "n", "t", "_", "d", "a", "t", "a", "b", "a", "s", "e", "(", ")">>,
       <<"c", "u", "r", "r", "e", "n", "t", "_", "u", "s", "e", "r", "(", ")">>,
       <<"s", "e", "s", "s", "i", "o", "n", "_", "u", "s", "e", "r", "(", ")">>,
       <<"i", "n", "e", "t", "_", "c", "l", "i", "e", "n", "t", "_", "a", "d", "d", "r", "(", ")">>,
       <<"i", "n", "e", "t", "_", "s", "e", "r", "v", "e", "r", "_", "a", "d", "d", "r", "(", ")">>,
       <<"v", "e", "r", "s", "i", "o", "n", "(", ")">>,
       <<"p", "g", "_", "b", "a", "c", "k", "e", "n", "d", "_", "p", "i", "d", "(", ")">>,
       <<"p", "g", "_", "p", "o", "s", "t", "m", "a", "s", "t", "e", "r", "_", "s", "t", "a", "r", "t", "_", "t", "i", "m", "e", "(", ")">>,
       <<"p", "g", "_", "c", "u", "r", "r", "e", "n", "t", "_", "x", "a", "c", "t", "_", "i", "d", "(", ")">>,
       <<"p", "g", "_", "i", "s", "_", "i", "n", "_", "r", "e", "c", "o", "v", "e", "r", "y", "(", ")">>,
       <<"t", "x", "i", "d", "_", "c", "u", "r", "r", "e", "n", "t", "(", ")">>,
       <<"p", "g", "_", "s", "i", "z", "e", "_", "p", "r", "e", "t", "t", "y", "(", ")">>,
       <<"U", "S", "E", "R">>,
       <<"s", "e", "a", "r", "c", "h", "_", "p", "a", "t", "h">>,
       <<"c", "l", "i", "e", "n", "t", "_", "e", "n", "c", "o", "d", "i", "n", "g">>,
       <<"D", "a", "t", "e", "S", "t", "y", "l", "e">>,
       <<"T", "i", "m", "e", "Z", "o", "n", "e">>,
       <<"a", "p", "p", "l", "i", "c", "a", "t", "i", "o", "n", "_", "n", "a", "m", "e">>,
       <<"s", "e", "r", "v", "e", "r", "_", "v", "e", "r", "s", "i", "o", "n">>,
       <<"i", "s", "_", "s", "u", "p", "e", "r", "u", "s", "e", "r">>,
       <<"s", "e", "s", "s", "i", "o", "n", "_", "a", "u", "t", "h", "o", "r", "i", "z", "a", "t", "i", "o", "n">>,
       <<"s", "t", "a", "n", "d", "a", "r", "d", "_", "c", "o", "n", "f", "o", "r", "m", "i", "n", "g", "_", "s", "t", "r", "i", "n", "g", "s">>,
       <<"t", "r", "a", "n", "s", "a", "c", "t", "i", "o", "n", "_", "i", "s", "o", "l", "a", "t", "i", "o", "n">>,
       <<"s", "t", "a", "t", "e", "m", "e", "n", "t", "_", "t", "i", "m", "e", "o", "u", "t">>,
       <<"l", "o", "c", "k", "_", "t", "i", "m", "e", "o", "u", "t">>,
       <<"i", "d", "l", "e", "_", "i", "n", "_", "t", "r", "a", "n", "s", "a", "c", "t", "i", "o", "n", "_", "s", "e", "s", "s", "i", "o", "n", "_", "t", "i", "m", "e", "o", "u", "t">>,
       <<"m", "a", "x", "_", "c", "o", "n", "n", "e", "c", "t", "i", "o", "n", "s">>,
       <<"s", "h", "a", "r", "e", "d", "_", "b", "u", "f", "f", "e", "r", "s">>,
       <<"w", "o", "r", "k", "_", "m", "e", "m">>,
       <<"m", "a", "i", "n", "t", "e", "n", "a", "n", "c", "e", "_", "w", "o", "r", "k", "_", "m", "e", "m">>,
       <<"e", "f", "f", "e", "c", "t", "i", "v", "e", "_", "c", "a", "c", "h", "e", "_", "s", "i", "z", "e">>,
       <<"l", "o", "g", "_", "m", "i", "n", "_", "d", "u", "r", "a", "t", "i", "o", "n", "_", "s", "t", "a", "t", "e", "m", "e", "n", "t">>,
       <<"l", "o", "g", "_", "s", "t", "a", "t", "e", "m", "e", "n", "t">> >>

is_query_only(s) ==
    LET upper == to_uppercase(s)
    IN  \E k \in DOMAIN BLACKLIST : contains(upper, BLACKLIST[k])

(***************************************************************************)
(* is_sui_rpc_query (utils.rs:69-74).                                      *)
(***************************************************************************)
SuiTargets ==
    << <<"S", "U", "I">>,
       <<"S", "U", "I", "T", "E", "S", "T">>,
       <<"S", "U", "I", "D", "E", "V">> >>

\* The classifier with Iterator::all in place of Iterator::any.
is_sui_rpc_query_all(query) ==
    LET upper == to_uppercase(query)
    IN  \A k \in DOMAIN SuiTargets : contains(upper, SuiTargets[k])

is_sui_rpc_query(query) ==
    LET upper == to_uppercase(query)
    IN  \E k \in DOMAIN SuiTargets : contains(upper, SuiTargets[k])

(***************************************************************************)
(* flatten_known_chain_tables (utils.rs:76-98).                            *)
(***************************************************************************)
\* The known chain namespaces (utils.rs:77-84).
known_chains ==
    { <<"s", "u", "i">>,
      <<"s", "u", "i", "d", "e", "v">>,
      <<"s", "u", "i", "t", "e", "s", "t">>,
      <<"e", "t", "h">>,
      <<"s", "e", "p", "o", "l", "i", "a">>,
      <<"a", "r", "b">>,
      <<"b", "a", "s", "e">>,
      <<"b", "l", "a", "s", "t">>,
      <<"o", "p">>,
      <<"p", "o", "l", "y">>,
      <<"m", "y", "c", "e", "l", "i", "u", "m">>,
      <<"m", "n", "t">>,
      <<"z", "k", "s">>,
      <<"t", "a", "i", "k", "o">>,
      <<"c", "e", "l", "o">>,
      <<"a", "v", "a", "x">>,
      <<"s", "c", "r", "o", "l", "l">>,
      <<"b", "n", "b">>,
      <<"l", "i", "n", "e", "a">>,
      <<"z", "o", "r", "a">>,
      <<"g", "l", "m", "r">>,
      <<"m", "o", "v", "r">>,
      <<"r", "o", "n">>,
      <<"f", "t", "m">>,
      <<"k", "a", "v", "a">>,
      <<"g", "n", "o">>,
      <<"m", "e", "k", "o", "n", "g">>,
      <<"m", "i", "n", "a">> }

\* The character class [a-zA-Z0-9_] of the pattern (utils.rs:86).
ClassChars == Range(LowerLetters) \cup Range(UpperLetters) \cup Digits \cup {"_"}

IsClassChar(c) == c \in ClassChars

\* \w as \b sees it: the regex is compiled in Unicode mode, so a letter
\* outside ASCII is a word character although it is not in the class.
IsWordChar(c) == IsClassChar(c) \/ c \in {EAcute, EAcuteUpper, SharpS}

\* \b holds in front of position p (1..Len(s)+1): exactly one of the
\* characters around the position is a word character.
WordBoundary(s, p) ==
    LET before == p > 1 /\ IsWordChar(s[p - 1])
        after == p <= Len(s) /\ IsWordChar(s[p])
    IN  before # after

\* The last position of the run of class characters that starts at p
\* (p - 1 when s[p] is no class character).
RunEnd(s, p) ==
    LET ends == {q \in (p - 1)..Len(s) : \A k \in p..q : IsClassChar(s[k])}
    IN  CHOOSE q \in ends : \A r \in ends : r <= q

NoMatch == [start |-> 0, dot |-> 0, end |-> 0]

\* The match of \b([a-zA-Z0-9_]+)\.([a-zA-Z0-9_]+)\b that starts at p, or
\* NoMatch.  The first group is greedy and must be followed by the dot,
\* which is no class character, so it is the whole run; the second group
\* is greedy and gives back characters until \b holds behind it.
MatchAt(s, p) ==
    LET d == RunEnd(s, p) + 1
        ends == {e \in (d + 1)..RunEnd(s, d + 1) : WordBoundary(s, e + 1)}
    IN  IF /\ WordBoundary(s, p)
           /\ d > p
           /\ d < Len(s)
           /\ s[d] = "."
           /\ ends # {}
        THEN [start |-> p, dot |-> d,
              end |-> CHOOSE e \in ends : \A f \in ends : f <= e]
        ELSE NoMatch

\* The leftmost match that starts at or after position at, or NoMatch.
FirstMatchFrom(s, at) ==
    LET starts == {p \in at..Len(s) : MatchAt(s, p) # NoMatch}
    IN  IF starts = {} THEN NoMatch
        ELSE MatchAt(s, CHOOSE p \in starts : \A q \in starts : p <= q)

\* Regex::replace with a limit of one: only the first match is found.
ScanFirstOnly(s, at) ==
    LET m == FirstMatchFrom(s, at)
    IN  IF m = NoMatch THEN <<>> ELSE <<m>>

\* The matches replace_all iterates over (utils.rs:88): successive
\* non-overlapping matches, each search resuming behind the previous match.
RECURSIVE Scan(_, _)
Scan(s, at) ==
    LET m == FirstMatchFrom(s, at)
    IN  IF m = NoMatch THEN <<>> ELSE <<m>> \o Scan(s, m.end + 1)

\* known_chains.contains(chain), compared ignoring case.
IsKnownChainIgnoreCase(chain) ==
    \E c \in known_chains : to_uppercase(c) = to_uppercase(chain)

\* known_chains.contains(chain) (utils.rs:91): exact equality.
IsKnownChain(chain) == chain \in known_chains

\* format! with a two-character separator.
FormatChainTableWide(chain, table) == chain \o <<"_", "_">> \o table

\* format!("{}_{}", chain, table) (utils.rs:92).
FormatChainTable(chain, table) == chain \o <<"_">> \o table

\* The closure without its membership test: every match is rewritten.
ReplacementAlways(s, m) ==
    FormatChainTable(SubSeq(s, m.start, m.dot - 1), SubSeq(s, m.dot + 1, m.end))

\* The closure passed to replace_all (utils.rs:88-96).
Replacement(s, m) ==
    LET chain == SubSeq(s, m.start, m.dot - 1)
        table == SubSeq(s, m.dot + 1, m.end)
    IN  IF IsKnownChain(chain)
        THEN FormatChainTable(chain, table)
        ELSE SubSeq(s, m.start, m.end)

\* Regex::replace_all (utils.rs:88-97): the text between the matches is
\* copied and each match is replaced by what the closure returns.
RECURSIVE Rebuild(_, _, _, _)
Rebuild(s, ms, k, last) ==
    IF k > Len(ms) THEN SubSeq(s, last, Len(s))
    ELSE SubSeq(s, last, ms[k].start - 1)
         \o Replacement(s, ms[k])
         \o Rebuild(s, ms, k + 1, ms[k].end + 1)

flatten_known_chain_tables(s) == Rebuild(s, Scan(s, 1), 1, 1)

(***************************************************************************)
(* JSON values (serde_json::Value).  A value is a record [t, v]: t is the  *)
(* kind and v its content as a sequence of text fragments: the digits of a *)
(* number, the text of a string, the elements of an array of numbers, and  *)
(* for the one-key object the key followed by the text of its string.      *)
(***************************************************************************)
JsonNull == [t |-> "null", v |-> <<>>]

JsonString(text) == [t |-> "string", v |-> text]

JsonNumber(n) == [t |-> "number", v |-> <<ToString(n)>>]

JsonBool(b) == [t |-> "bool", v |-> <<IF b THEN "true" ELSE "false">>]

JsonArray(ns) == [t |-> "array", v |-> [k \in DOMAIN ns |-> ToString(ns[k])]]

\* json!({ "error": text }) (utils.rs:102, utils.rs:110).
JsonErrorObject(text) == [t |-> "object", v |-> <<"error">> \o text]

RECURSIVE CommaSeparated(_)
CommaSeparated(items) ==
    IF Len(items) <= 1 THEN items
    ELSE <<Head(items), ",">> \o CommaSeparated(Tail(items))

\* Value::to_string / serde_json::to_string of a Value (utils.rs:101-102):
\* the JSON text, as a sequence of fragments.  The texts of this model hold
\* no character that JSON escapes.
JsonText(j) ==
    CASE j.t = "null" -> <<"null">>
      [] j.t = "string" -> <<"\"">> \o j.v \o <<"\"">>
      [] j.t = "array" -> <<"[">> \o CommaSeparated(j.v) \o <<"]">>
      [] j.t = "object" ->
            <<"{", "\"", Head(j.v), "\"", ":", "\"">> \o Tail(j.v) \o <<"\"", "}">>
      [] OTHER -> j.v

(***************************************************************************)
(* json_response and json_error (utils.rs:100-112).  A payload is a record *)
(* [ok, json, error]: whether its Serialize implementation succeeds, the   *)
(* value it serializes to, and the error it reports when it does not.      *)
(***************************************************************************)
\* serde_json::to_string(&data) (utils.rs:101).
serde_to_string(payload) ==
    IF payload.ok THEN [tag |-> "Ok", text |-> JsonText(payload.json)]
    ELSE [tag |-> "Err", text |-> <<payload.error>>]

json_response(st, payload) ==
    LET r == serde_to_string(payload)
        body == IF r.tag = "Ok" THEN r.text
                ELSE JsonText(JsonErrorObject(<<"Serialization failed: ">> \o r.text))
    IN  [status |-> st, body |-> body]

json_error(e) ==
    json_response("InternalServerError",
                  [ok |-> TRUE, json |-> JsonErrorObject(<<e>>), error |-> ""])

(***************************************************************************)
(* decode_column_to_json (utils.rs:114-180).                               *)
(*                                                                         *)
(* A cell of a row is a record [null, corrupt, wire, text, nums, json]:    *)
(* whether it holds SQL NULL, whether its bytes fail to decode, the wire   *)
(* type of the column, and the stored value as text, as numbers (an        *)
(* integer, the bytes of a BYTEA, the fields of a date or time) or as a    *)
(* JSON value.                                                             *)
(***************************************************************************)
\* The wire types each Rust type asked of the driver decodes from.
Compatible(rust) ==
    CASE rust = "i32" -> {"INT4"}
      [] rust = "i64" -> {"INT8"}
      [] rust = "f32" -> {"FLOAT4"}
      [] rust = "f64" -> {"FLOAT8"}
      [] rust = "bool" -> {"BOOL"}
      [] rust = "String" -> {"TEXT", "VARCHAR", "BPCHAR", "NAME", "UNKNOWN"}
      [] rust = "Vec<u8>" -> {"BYTEA"}
      [] rust = "Value" -> {"JSON", "JSONB"}
      [] rust = "NaiveDate" -> {"DATE"}
      [] rust = "NaiveTime" -> {"TIME"}
      [] rust = "NaiveDateTime" -> {"TIMESTAMP"}
      [] rust = "DateTime<Utc>" -> {"TIMESTAMPTZ"}
      [] rust = "Vec<i32>" -> {"_INT4"}
      [] OTHER -> {}

NoCell ==
    [null |-> TRUE, corrupt |-> FALSE, wire |-> "", text |-> <<>>,
     nums |-> <<>>, json |-> JsonNull]

\* row.try_get::<Option<T>, _>(i) (utils.rs:117-176), i counted from 0: an
\* error for an index outside the row; Ok(None) for SQL NULL, whatever the
\* column's type; an error for a value whose wire type T does not decode
\* from, or whose bytes do not decode; Ok(Some(value)) otherwise.
try_get(r, i, rust) ==
    IF i >= Len(r) THEN [tag |-> "Err", some |-> FALSE, cell |-> NoCell]
    ELSE LET c == r[i + 1]
         IN  IF c.null THEN [tag |-> "Ok", some |-> FALSE, cell |-> NoCell]
             ELSE IF c.wire \notin Compatible(rust) \/ c.corrupt
             THEN [tag |-> "Err", some |-> FALSE, cell |-> NoCell]
             ELSE [tag |-> "Ok", some |-> TRUE, cell |-> c]

\* Result::ok followed by Option::flatten.
ok_flatten(r) == [some |-> r.tag = "Ok" /\ r.some, cell |-> r.cell]

Pad2(n) == IF n < 10 THEN <<"0", ToString(n)>> ELSE <<ToString(n)>>

\* NaiveDate::to_string: %Y-%m-%d (years of four digits).
DateText(n) == <<ToString(n[1]), "-">> \o Pad2(n[2]) \o <<"-">> \o Pad2(n[3])

\* NaiveTime::to_string: %H:%M:%S (whole seconds).
TimeText(n) == Pad2(n[1]) \o <<":">> \o Pad2(n[2]) \o <<":">> \o Pad2(n[3])

\* NaiveDateTime::to_string: the date, a space, the time.
DateTimeText(n) == DateText(SubSeq(n, 1, 3)) \o <<" ">> \o TimeText(SubSeq(n, 4, 6))

\* DateTime<Utc>::to_rfc3339: the date, T, the time, the offset +00:00.
Rfc3339Text(n) ==
    DateText(SubSeq(n, 1, 3)) \o <<"T">> \o TimeText(SubSeq(n, 4, 6)) \o <<"+00:00">>

Base64Alphabet ==
    UpperLetters \o LowerLetters
    \o <<"0", "1", "2", "3", "4", "5", "6", "7", "8", "9", "+", "/">>

Sextet(n, k) == Base64Alphabet[((n \div (64 ^ (3 - k))) % 64) + 1]

\* base64::encode (utils.rs:138): three bytes become four characters, a
\* last group of one or two bytes is padded with "=".
RECURSIVE base64_encode(_)
base64_encode(b) ==
    IF Len(b) = 0 THEN <<>>
    ELSE IF Len(b) = 1
    THEN LET n == b[1] * 65536
         IN  <<Sextet(n, 0), Sextet(n, 1), "=", "=">>
    ELSE IF Len(b) = 2
    THEN LET n == b[1] * 65536 + b[2] * 256
         IN  <<Sextet(n, 0), Sextet(n, 1), Sextet(n, 2), "=">>
    ELSE LET n == b[1] * 65536 + b[2] * 256 + b[3]
         IN  <<Sextet(n, 0), Sextet(n, 1), Sextet(n, 2), Sextet(n, 3)>>
             \o base64_encode(SubSeq(b, 4, Len(b)))

\* The outcome of a call that panics instead of returning.
Panicked == [t |-> "panic", v |-> <<>>]

\* json!(option) of a number (utils.rs:117-120).
number_branch(r) ==
    LET o == ok_flatten(r)
    IN  IF o.some THEN JsonNumber(o.cell.nums[1]) ELSE JsonNull

\* json!(option) of a String (utils.rs:122-125, utils.rs:129-131).
string_branch(r) ==
    LET o == ok_flatten(r)
    IN  IF o.some THEN JsonString(o.cell.text) ELSE JsonNull

\* json!(option) of a bool (utils.rs:126).
bool_branch(r) ==
    LET o == ok_flatten(r)
    IN  IF o.some THEN JsonBool(o.cell.nums[1] = 1) ELSE JsonNull

\* utils.rs:134-139.
bytea_branch(r) ==
    LET o == ok_flatten(r)
    IN  IF o.some THEN JsonString(base64_encode(o.cell.nums)) ELSE JsonNull

\* utils.rs:142-146: the stored value itself.
json_branch(r) ==
    LET o == ok_flatten(r)
    IN  IF o.some THEN o.cell.json ELSE JsonNull

\* A date/time branch that unwraps the driver's result.
datetime_branch_unwrap(r, text) ==
    IF r.tag = "Err" THEN Panicked
    ELSE IF r.some THEN JsonString(text) ELSE JsonNull

\* utils.rs:149-164: map over the Result, then over the Option, each with
\* unwrap_or(json!(null)); text is the value's textual form.
datetime_branch(r, text) ==
    IF r.tag = "Err" THEN JsonNull
    ELSE IF r.some THEN JsonString(text) ELSE JsonNull

\* utils.rs:167-172.
int_array_branch(r) ==
    LET o == ok_flatten(r)
    IN  IF o.some THEN JsonArray(o.cell.nums) ELSE JsonNull

\* A fallback that replaces a missing value by the default String.
fallback_branch_default(r) ==
    IF r.tag = "Err" THEN JsonNull
    ELSE IF r.some THEN JsonString(r.cell.text) ELSE JsonString(<<>>)

\* utils.rs:175-178: json!(v) of the Option, JSON null for an error.
fallback_branch(r) ==
    IF r.tag = "Err" THEN JsonNull
    ELSE IF r.some THEN JsonString(r.cell.text) ELSE JsonNull

\* The Rust type each arm asks the driver for (the turbofish of its
\* try_get call, utils.rs:117-176).
RequestedType(ty) ==
    CASE ty \in {"INT2", "INT4"} -> "i32"
      [] ty = "INT8" -> "i64"
      [] ty = "FLOAT4" -> "f32"
      [] ty = "FLOAT8" -> "f64"
      [] ty = "BOOL" -> "bool"
      [] ty = "BYTEA" -> "Vec<u8>"
      [] ty \in {"JSON", "JSONB"} -> "Value"
      [] ty = "DATE" -> "NaiveDate"
      [] ty = "TIME" -> "NaiveTime"
      [] ty = "TIMESTAMP" -> "NaiveDateTime"
      [] ty = "TIMESTAMPTZ" -> "DateTime<Utc>"
      [] ty = "_INT4" -> "Vec<i32>"
      [] OTHER -> "String"

decode_column_to_json(r, i, ty) ==
    LET g == try_get(r, i, RequestedType(ty))
    IN  CASE ty \in {"INT2", "INT4", "INT8", "FLOAT4", "FLOAT8"} -> number_branch(g)
          [] ty \in {"NUMERIC", "DECIMAL"} -> string_branch(g)
          [] ty = "BOOL" -> bool_branch(g)
          [] ty \in {"TEXT", "VARCHAR", "CHAR", "BPCHAR", "UUID"} -> string_branch(g)
          [] ty = "BYTEA" -> bytea_branch(g)
          [] ty \in {"JSON", "JSONB"} -> json_branch(g)
          [] ty = "DATE" ->
                datetime_branch(g, IF g.some THEN DateText(g.cell.nums) ELSE <<>>)
          [] ty = "TIME" ->
                datetime_branch(g, IF g.some THEN TimeText(g.cell.nums) ELSE <<>>)
          [] ty = "TIMESTAMP" ->
                datetime_branch(g, IF g.some THEN DateTimeText(g.cell.nums) ELSE <<>>)
          [] ty = "TIMESTAMPTZ" ->
                datetime_branch(g, IF g.some THEN Rfc3339Text(g.cell.nums) ELSE <<>>)
          [] ty = "_INT4" -> int_array_branch(g)
          [] OTHER -> fallback_branch(g)

(***************************************************************************)
(* Inputs.                                                                 *)
(***************************************************************************)
\* Longest statement written over Alphabet.
MaxLen == 4

\* Most identifiers in a statement of dot-joined identifiers.
MaxIdents == 6

\* Most words in a statement put together from Words.
MaxWords == 2

\* Most cells in a row.
MaxCols == 2

Alphabet == {"o", "p", ".", "_", " ", EAcute}

RECURSIVE StringsOfLen(_)
StringsOfLen(n) ==
    IF n = 0 THEN {<<>>}
    ELSE {Append(s, c) : s \in StringsOfLen(n - 1), c \in Alphabet}

ShortStatements == UNION {StringsOfLen(n) : n \in 0..MaxLen}

\* A known chain, an unknown identifier, and identifiers that end or
\* start with a letter outside ASCII.
ChainIdents == {<<"o", "p">>, <<"x">>, <<"x", EAcute>>, <<EAcute, "x">>}

RECURSIVE DotJoined(_)
DotJoined(n) ==
    IF n = 1 THEN ChainIdents
    ELSE {s \o <<".">> \o id : s \in DotJoined(n - 1), id \in ChainIdents}

DottedStatements == UNION {DotJoined(n) : n \in 1..MaxIdents}

Words ==
    { <<"D","E","L","E","T","E">>, <<"d","e","l","e","t","e">>,
      <<"s","e","l","e","c","t">>, <<"S","E","T">>, <<"u","s","e","r","_","i","d">>,
      <<"v","e","r","s","i","o","n","(",")">>, <<"V","E","R","S","I","O","N","(",")">>,
      <<"w","o","r","k","_","m","e","m">>, <<"T","i","m","e","Z","o","n","e">>,
      <<"s","u","i">>, <<"S","u","i","D","e","v">>, <<SharpS, "u", "i">>,
      <<"S","U">>, <<"I">>, <<"e","t","h">>, <<"O","P">>, <<".">>, <<" ">>, <<"x">> }

RECURSIVE Phrases(_)
Phrases(n) ==
    IF n = 0 THEN {<<>>}
    ELSE {s \o w : s \in Phrases(n - 1), w \in Words}

WordStatements == UNION {Phrases(n) : n \in 0..MaxWords}

ExDelete == <<"D","E","L","E","T","E"," ","F","R","O","M"," ","e","t","h",".","b","l","o","c","k","s">>

ExSelect == <<"S","E","L","E","C","T"," ","*"," ","F","R","O","M"," ","e","t","h",".","b","l","o","c","k","s">>

ExCurrentDatabaseLower == <<"s","e","l","e","c","t"," ","c","u","r","r","e","n","t","_","d","a","t","a","b","a","s","e","(",")">>

ExCurrentDatabaseUpper == <<"S","E","L","E","C","T"," ","C","U","R","R","E","N","T","_","D","A","T","A","B","A","S","E","(",")">>

ExWhere == <<"S","E","L","E","C","T"," ","*"," ","F","R","O","M"," ","e","t","h",".","b","l","o","c","k","s"," ","W","H","E","R","E"," ","e","t","h",".","b","l","o","c","k","s",".","i","d"," ","="," ","1">>

ExWhereFlat == <<"S","E","L","E","C","T"," ","*"," ","F","R","O","M"," ","e","t","h","_","b","l","o","c","k","s"," ","W","H","E","R","E"," ","e","t","h","_","b","l","o","c","k","s",".","i","d"," ","="," ","1">>

ExFooBar == <<"S","E","L","E","C","T"," ","*"," ","F","R","O","M"," ","f","o","o",".","b","a","r">>

ExUpperEth == <<"E","T","H",".","b","l","o","c","k","s">>

ExFiveChain == <<"e","t","h",".","a",".","b",".","s","u","i",".","c">>

ExSuiTest == <<"s","e","l","e","c","t"," ","*"," ","f","r","o","m"," ","S","u","i","T","e","s","t",".","o","b","j","e","c","t","s">>

ExEthLower == <<"s","e","l","e","c","t"," ","*"," ","f","r","o","m"," ","e","t","h",".","b","l","o","c","k","s">>

ExUserId == <<"S","E","L","E","C","T"," ","u","s","e","r","_","i","d"," ","F","R","O","M"," ","t">>

Examples ==
    {ExDelete, ExSelect, ExCurrentDatabaseLower, ExCurrentDatabaseUpper, ExWhere,
     ExFooBar, ExUpperEth, ExFiveChain, ExSuiTest, ExEthLower, ExUserId}

Statements == ShortStatements \cup DottedStatements \cup WordStatements \cup Examples

Cell(wire, text, nums, json) ==
    [null |-> FALSE, corrupt |-> FALSE, wire |-> wire, text |-> text,
     nums |-> nums, json |-> json]

Cells ==
    { [Cell("INT4", <<>>, <<>>, JsonNull) EXCEPT !.null = TRUE],
      [Cell("TEXT", <<>>, <<>>, JsonNull) EXCEPT !.corrupt = TRUE],
      Cell("INT4", <<>>, <<7>>, JsonNull),
      Cell("TEXT", <<"a", "b">>, <<>>, JsonNull),
      Cell("BYTEA", <<>>, <<0, 1, 2>>, JsonNull),
      Cell("JSONB", <<>>, <<>>, JsonErrorObject(<<"x">>)),
      Cell("TIMESTAMPTZ", <<>>, <<2024, 1, 31, 23, 59, 5>>, JsonNull) }

RECURSIVE RowsOfLen(_)
RowsOfLen(n) ==
    IF n = 0 THEN {<<>>}
    ELSE {Append(r, c) : r \in RowsOfLen(n - 1), c \in Cells}

Rows == UNION {RowsOfLen(n) : n \in 0..MaxCols}

\* The type names the decoder has an arm for, and three it has none for.
TypeNames ==
    {"INT2", "INT4", "INT8", "FLOAT4", "FLOAT8", "NUMERIC", "DECIMAL", "BOOL",
     "TEXT", "VARCHAR", "CHAR", "BPCHAR", "UUID", "BYTEA", "JSON", "JSONB",
     "DATE", "TIME", "TIMESTAMP", "TIMESTAMPTZ", "_INT4",
     "INET", "int4", ""}

Statuses == {"Ok", "BadRequest", "NotFound", "InternalServerError"}

Payloads ==
    {[ok |-> TRUE, json |-> j, error |-> ""] :
        j \in {JsonNull, JsonString(<<"a">>), JsonNumber(0), JsonBool(TRUE),
               JsonArray(<<1, 2>>), JsonErrorObject(<<"bad">>)}}
    \cup
    {[ok |-> FALSE, json |-> JsonNull, error |-> e] :
        e \in {"key must be a string", "custom error"}}

ErrorTexts == {"pool timed out", "relation does not exist", ""}

(***************************************************************************)
(* The statement functions: a statement is drawn, and one of the functions *)
(* is applied to it; the rewriter may be applied again to its own output.  *)
(***************************************************************************)
Init ==
    /\ pc = "start"
    /\ sql \in Statements
    /\ ret = <<>>
    /\ prev = <<>>
    /\ row = <<>>
    /\ idx = 0
    /\ type_name = ""
    /\ status = ""
    /\ data = [ok |-> TRUE, json |-> JsonNull, error |-> ""]
    /\ err = ""

IsQueryOnly ==
    /\ pc = "start"
    /\ pc' = "is_query_only"
    /\ ret' = is_query_only(sql)
    /\ UNCHANGED <<sql, prev, row, idx, type_name, status, data, err>>

IsSuiRpcQuery ==
    /\ pc = "start"
    /\ pc' = "is_sui_rpc_query"
    /\ ret' = is_sui_rpc_query(sql)
    /\ UNCHANGED <<sql, prev, row, idx, type_name, status, data, err>>

Flatten ==
    /\ pc = "start"
    /\ pc' = "flatten"
    /\ ret' = flatten_known_chain_tables(sql)
    /\ UNCHANGED <<sql, prev, row, idx, type_name, status, data, err>>

\* The rewriter applied to its own output: prev keeps the first output.
FlattenAgain ==
    /\ pc = "flatten"
    /\ pc' = "reflatten"
    /\ prev' = ret
    /\ ret' = flatten_known_chain_tables(ret)
    /\ UNCHANGED <<sql, row, idx, type_name, status, data, err>>

Next == IsQueryOnly \/ IsSuiRpcQuery \/ Flatten \/ FlattenAgain

Spec == Init /\ [][Next]_vars

(***************************************************************************)
(* The column decoder: a row, an index and a type name are drawn, and the  *)
(* cell is decoded.                                                        *)
(***************************************************************************)
InitDecode ==
    /\ pc = "start"
    /\ row \in Rows
    /\ idx \in 0..MaxCols
    /\ type_name \in TypeNames
    /\ ret = JsonNull
    /\ sql = <<>>
    /\ prev = <<>>
    /\ status = ""
    /\ data = [ok |-> TRUE, json |-> JsonNull, error |-> ""]
    /\ err = ""

DecodeColumn ==
    /\ pc = "start"
    /\ pc' = "decode"
    /\ ret' = decode_column_to_json(row, idx, type_name)
    /\ UNCHANGED <<sql, prev, row, idx, type_name, status, data, err>>

NextDecode == DecodeColumn

SpecDecode == InitDecode /\ [][NextDecode]_vars

(***************************************************************************)
(* The response envelope: a status, a payload and an error are drawn, and  *)
(* one of the two functions builds the envelope.                           *)
(***************************************************************************)
InitJson ==
    /\ pc = "start"
    /\ status \in Statuses
    /\ data \in Payloads
    /\ err \in ErrorTexts
    /\ ret = [status |-> "", body |-> <<>>]
    /\ sql = <<>>
    /\ prev = <<>>
    /\ row = <<>>
    /\ idx = 0
    /\ type_name = ""

JsonResponse ==
    /\ pc = "start"
    /\ pc' = "json_response"
    /\ ret' = json_response(status, data)
    /\ UNCHANGED <<sql, prev, row, idx, type_name, status, data, err>>

JsonError ==
    /\ pc = "start"
    /\ pc' = "json_error"
    /\ ret' = json_error(err)
    /\ UNCHANGED <<sql, prev, row, idx, type_name, status, data, err>>

NextJson == JsonResponse \/ JsonError

SpecJson == InitJson /\ [][NextJson]_vars

(***************************************************************************)
(* Properties of is_query_only.                                            *)
(***************************************************************************)
\* s holds a denylist entry as a substring, compared ignoring case.
DenylistHit(s) ==
    \E k \in DOMAIN BLACKLIST : contains(to_uppercase(s), to_uppercase(BLACKLIST[k]))

\* C1: a statement that holds a denylist entry as a substring, compared
\* ignoring case, is not query-only: is_query_only returns false for it; in
\* particular for "DELETE FROM eth.blocks" and for both spellings of
\* "select current_database()".
C1_DenylistedIsRejected ==
    pc = "is_query_only" =>
        /\ DenylistHit(sql) => ret = FALSE
        /\ sql \in {ExDelete, ExCurrentDatabaseLower, ExCurrentDatabaseUpper} => ret = FALSE

\* C2: a statement that holds no denylist entry, compared ignoring case, is
\* query-only: is_query_only returns true for it; in particular for
\* "SELECT * FROM eth.blocks".
C2_CleanIsAdmitted ==
    pc = "is_query_only" =>
        /\ ~DenylistHit(sql) => ret = TRUE
        /\ sql = ExSelect => ret = TRUE

(***************************************************************************)
(* Properties of is_sui_rpc_query.                                         *)
(***************************************************************************)
\* The text pat stands in s at offset p.
OccursAt(s, pat, p) ==
    /\ p + Len(pat) <= Len(s)
    /\ \A k \in 1..Len(pat) : s[p + k] = pat[k]

\* C9: is_sui_rpc_query returns true exactly when the uppercased query
\* holds SUI, SUITEST or SUIDEV as a substring; it is true for
\* "select * from SuiTest.objects" and false for "select * from eth.blocks".
C9_SuiMarkerDecides ==
    pc = "is_sui_rpc_query" =>
        /\ LET upper == to_uppercase(sql)
           IN  ret = (\E pat \in {<<"S", "U", "I">>,
                                  <<"S", "U", "I", "T", "E", "S", "T">>,
                                  <<"S", "U", "I", "D", "E", "V">>} :
                         \E p \in 0..Len(upper) : OccursAt(upper, pat, p))
        /\ sql = ExSuiTest => ret = TRUE
        /\ sql = ExEthLower => ret = FALSE

\* A mixed-case marker was classified as a Sui query.
C9_Witness == pc = "is_sui_rpc_query" /\ sql = ExSuiTest /\ ret = TRUE

(***************************************************************************)
(* Properties of flatten_known_chain_tables.                               *)
(***************************************************************************)
\* The dotted pairs of s: every span identifier.identifier with a word
\* boundary at both ends.
DottedPairs(s) ==
    LET dots == {d \in 1..Len(s) : s[d] = "."}
    IN  {m \in UNION {[start : 1..(d - 1), dot : {d}, end : (d + 1)..Len(s)] : d \in dots} :
            /\ \A k \in (m.start)..(m.end) : k # m.dot => IsClassChar(s[k])
            /\ WordBoundary(s, m.start)
            /\ WordBoundary(s, m.end + 1)}

LeftOf(s, m) == SubSeq(s, m.start, m.dot - 1)

\* The pairs a left-to-right, non-overlapping scan takes: a pair is taken
\* exactly when no pair taken before it reaches into it.
ScannedPairs(s) ==
    LET P == DottedPairs(s)
    IN  CHOOSE S \in SUBSET P :
            \A m \in P :
                m \in S <=> ~\E n \in S : n.start < m.start /\ n.end >= m.start

\* The dots the rewriter is to replace: those of the scanned pairs whose
\* left identifier is a known chain.
KnownDots(s) == {m.dot : m \in {n \in ScannedPairs(s) : LeftOf(s, n) \in known_chains}}

\* C3: the output is the input with the dot of every pair of the
\* left-to-right non-overlapping scan whose left identifier is a known
\* chain replaced by an underscore, and nothing else changed; both
\* eth.blocks of the WHERE example become eth_blocks.
C3_RewritesKnownPairsOnly ==
    pc = "flatten" =>
        /\ Len(ret) = Len(sql)
        /\ LET dots == KnownDots(sql)
           IN  \A p \in 1..Len(sql) :
                   ret[p] = IF p \in dots THEN "_" ELSE sql[p]
        /\ sql = ExWhere => ret = ExWhereFlat

\* The WHERE example was rewritten at both places.
C3_Witness == pc = "flatten" /\ sql = ExWhere /\ ret = ExWhereFlat /\ ret # sql

\* C4 as stated: applying the rewriter to its own output gives that output
\* again, for every statement.
C4_Idempotent == pc = "reflatten" => ret = prev

\* The dot at d joins two identifiers.
JoiningDot(s, d) ==
    /\ 1 < d
    /\ d < Len(s)
    /\ s[d] = "."
    /\ IsClassChar(s[d - 1])
    /\ IsClassChar(s[d + 1])

\* The joining dots at d and e are the two sides of one identifier.
SameIdentifier(s, d, e) == d < e /\ \A k \in (d + 1)..(e - 1) : IsClassChar(s[k])

\* s holds five identifiers joined by four dots.
HasFiveChain(s) ==
    LET J == {d \in 1..Len(s) : JoiningDot(s, d)}
    IN  \E d1, d2, d3, d4 \in J :
            /\ SameIdentifier(s, d1, d2)
            /\ SameIdentifier(s, d2, d3)
            /\ SameIdentifier(s, d3, d4)

\* C4, amended: applying the rewriter to its own output gives that output
\* again for every statement that holds no run of five or more dot-joined
\* identifiers.
C4_IdempotentUpToFour == (pc = "reflatten" /\ ~HasFiveChain(sql)) => ret = prev

\* A statement of four dot-joined identifiers was rewritten, and rewriting
\* the output changed nothing.
C4_Witness ==
    /\ pc = "reflatten"
    /\ sql = <<"o", "p", ".", "x", ".", "o", "p", ".", "x">>
    /\ prev = <<"o", "p", "_", "x", ".", "o", "p", "_", "x">>
    /\ ret = prev

\* C5: a dotted pair whose left identifier is not, letter for letter, a
\* known chain stands in the output as it stood in the input; when no
\* scanned pair has a known chain on its left the output is the input;
\* "SELECT * FROM foo.bar" and "ETH.blocks" are returned unchanged.
C5_UnknownLeftUntouched ==
    pc = "flatten" =>
        /\ Len(ret) = Len(sql)
        /\ \A m \in DottedPairs(sql) :
              LeftOf(sql, m) \notin known_chains =>
                  \A p \in (m.start)..(m.end) : ret[p] = sql[p]
        /\ (\A m \in ScannedPairs(sql) : LeftOf(sql, m) \notin known_chains) => ret = sql
        /\ sql \in {ExFooBar, ExUpperEth} => ret = sql

\* A pair with the uppercase spelling of a known chain was left alone.
C5_Witness ==
    /\ pc = "flatten"
    /\ sql = ExUpperEth
    /\ DottedPairs(sql) # {}
    /\ ret = sql

\* C10: the output is as long as the input and differs from it only where
\* the input has a dot, and there the output has an underscore.
C10_OnlyDotsBecomeUnderscores ==
    pc = "flatten" =>
        /\ Len(ret) = Len(sql)
        /\ \A p \in 1..Len(sql) : ret[p] # sql[p] => (sql[p] = "." /\ ret[p] = "_")

\* A statement was rewritten: some dot became an underscore.
C10_Witness ==
    /\ pc = "flatten"
    /\ \E p \in 1..Len(sql) : sql[p] = "." /\ p <= Len(ret) /\ ret[p] = "_"

(***************************************************************************)
(* Properties of json_response and json_error.                             *)
(***************************************************************************)
\* C6: when the payload passed to json_response fails to serialize, the
\* envelope's body is the JSON object with the serialization error under
\* "error" and its status is the internal-error status, whatever status was
\* passed in; json_error returns the internal-error status with the body
\* {"error": <the error's text>}.
C6_FailureIsInternalError ==
    /\ (pc = "json_response" /\ ~data.ok) =>
          /\ ret.body = <<"{", "\"", "error", "\"", ":", "\"",
                          "Serialization failed: ", data.error, "\"", "}">>
          /\ ret.status = "InternalServerError"
    /\ pc = "json_error" =>
          /\ ret.body = <<"{", "\"", "error", "\"", ":", "\"", err, "\"", "}">>
          /\ ret.status = "InternalServerError"

(***************************************************************************)
(* Properties of decode_column_to_json.                                    *)
(***************************************************************************)
\* C7: whatever the type name, a cell that holds SQL NULL decodes to JSON
\* null.
C7_NullDecodesToNull ==
    (pc = "decode" /\ idx < Len(row) /\ row[idx + 1].null) => ret = JsonNull

\* A NULL cell was decoded under a type name the decoder has no arm for.
C7_Witness ==
    /\ pc = "decode"
    /\ idx < Len(row)
    /\ row[idx + 1].null
    /\ type_name = "INET"
    /\ ret = JsonNull

\* The driver's read of the cell fails: the index is outside the row, the
\* stored bytes do not decode, or the value's wire type is not one the
\* requested Rust type decodes from.
ReadFails ==
    \/ idx >= Len(row)
    \/ /\ ~row[idx + 1].null
       /\ \/ row[idx + 1].corrupt
          \/ row[idx + 1].wire \notin Compatible(RequestedType(type_name))

\* C8: whatever the type name, a cell whose read fails decodes to JSON
\* null; the call returns and does not panic.
C8_FailedReadDecodesToNull ==
    (pc = "decode" /\ ReadFails) => (ret = JsonNull /\ ret # Panicked)

\* An INT4 value was decoded under a type name the decoder has no arm for:
\* the read as text failed.
C8_Witness ==
    /\ pc = "decode"
    /\ idx < Len(row)
    /\ ~row[idx + 1].null
    /\ row[idx + 1].wire = "INT4"
    /\ type_name = "int4"
    /\ ReadFails
    /\ ret = JsonNull

====
